---------------------------- MODULE Spec2Model ----------------------------
(***************************************************************************)
(* Frontend of the Student LLM Assistant.                                  *)
(*                                                                         *)
(*   - chatAPI.streamMessage (services/api.ts): the pump that turns the    *)
(*     body of POST /api/chat/stream into a ReadableStream of events.      *)
(*   - ChatInterface (components/ChatInterface.tsx): the React component   *)
(*     that owns the turn list and sends chat requests.                    *)
(*                                                                         *)
(* Text is a sequence of one-character strings, so that split, startsWith, *)
(* slice and trim are computed character by character as the code does.    *)
(***************************************************************************)
EXTENDS Integers, Sequences, FiniteSets, TLC

(***************************************************************************)
(* Bounds of the model.                                                    *)
(***************************************************************************)
MaxLines == 3
MaxChunk == 9
MaxReadRequests == 1

(***************************************************************************)
(* Text helpers.                                                           *)
(***************************************************************************)
NL == "\n"

Min(a, b) == IF a <= b THEN a ELSE b

IsPrefix(s, t) == Len(s) <= Len(t) /\ SubSeq(t, 1, Len(s)) = s

\* "data: " (api.ts:92) and the length used by line.slice(6) (api.ts:94)
DataPrefix == <<"d", "a", "t", "a", ":", " ">>

\* String.prototype.split("\n"): the pieces between newlines; always at least
\* one piece, the last one being the text after the last newline.
RECURSIVE SplitFrom(_, _, _)
SplitFrom(s, i, cur) ==
    IF i > Len(s) THEN <<cur>>
    ELSE IF s[i] = NL THEN <<cur>> \o SplitFrom(s, i + 1, <<>>)
    ELSE SplitFrom(s, i + 1, Append(cur, s[i]))

Split(s) == SplitFrom(s, 1, <<>>)

\* String.prototype.startsWith
StartsWith(line, prefix) ==
    Len(line) >= Len(prefix) /\ SubSeq(line, 1, Len(prefix)) = prefix

\* String.prototype.slice(n)
Slice(line, n) == SubSeq(line, n + 1, Len(line))

(***************************************************************************)
(* JSON payloads.  One symbol stands for one complete JSON text of a       *)
(* ChatStreamResponse: "a" and "b" are content events, "D" is the event    *)
(* with done = true, "x" is text that is not JSON.  JSON.parse accepts     *)
(* surrounding blanks and rejects anything that is not exactly one value.  *)
(***************************************************************************)
JsonSymbols == {"a", "D"}

RECURSIVE StripBlanks(_)
StripBlanks(s) ==
    IF s = <<>> THEN <<>>
    ELSE IF Head(s) = " " THEN StripBlanks(Tail(s))
    ELSE IF s[Len(s)] = " " THEN StripBlanks(SubSeq(s, 1, Len(s) - 1))
    ELSE s

JsonParses(text) ==
    LET t == StripBlanks(text) IN Len(t) = 1 /\ t[1] \in JsonSymbols

\* ChatStreamResponse {chunk, done}
JsonParse(text) ==
    LET t == StripBlanks(text)
    IN  [chunk |-> t[1], done |-> (t[1] = "D")]


(***************************************************************************)
(* State.                                                                  *)
(***************************************************************************)
VARIABLES
    \* ---- streamMessage ----
    response,        \* the Response fetch resolved with: ok, and whether
                     \* it has a body; arrived = FALSE while fetch is awaited
    body,            \* the response body the server sends, as text
    pos,             \* how many characters of body reader.read() has returned
    buffer,          \* `buffer` of start() (api.ts:78)
    pumpPc,          \* "fetching": streamMessage awaits fetch;
                     \* "threw": streamMessage threw, no stream was returned;
                     \* "reading": a reader.read() is outstanding;
                     \* "done": pump returned after controller.close();
                     \* "failed": the promise of pump() rejected
    streamState,     \* [[state]] of the ReadableStream, "none" before it
                     \* is constructed
    closeRequested,  \* [[closeRequested]] of its controller
    queue,           \* [[queue]] of its controller
    readRequests,    \* pending read() requests of the consumer
    delivered,       \* events the consumer's read() calls resolved with
    enqueued,        \* history: events controller.enqueue accepted
    cancelled,       \* history: the consumer called cancel()
    observedFailure, \* history: a read() of the consumer rejected
    \* ---- ChatInterface ----
    messages,        \* useState<ChatMessage[]>([])   (part_000:9)
    inputMessage,    \* useState("")                  (part_000:10)
    isLoading,       \* useState(false)               (part_000:11)
    currentSources,  \* useState<Source[]>([])        (part_000:12)
    showSources,     \* useState(false)               (part_000:13)
    pending,         \* the chatAPI.sendMessage calls awaiting their outcome
    sent,            \* history: the requests passed to chatAPI.sendMessage
    received,        \* history: the responses chatAPI.sendMessage resolved with
    blockedSends,    \* history: handleSendMessage returned at its guard with
                     \* a draft to send, because isLoading was set
    \* ---- App ----
    isConnected,     \* useState<boolean | null>(null)  (App.tsx:8), as
                     \* "null", "true", "false"
    sidebarOpen,     \* useState(false)                 (App.tsx:9)
    checks,          \* the healthAPI.checkHealth calls awaiting their outcome
    checksStarted,   \* history: how many checkConnection calls were made
    healthSucceeded  \* history: a checkHealth call has resolved

streamVars == <<response, body, pos, buffer, pumpPc, streamState, closeRequested, queue,
                readRequests, delivered, enqueued, cancelled, observedFailure>>

chatVars == <<messages, inputMessage, isLoading, currentSources, showSources,
              pending, sent, received, blockedSends>>

appVars == <<isConnected, sidebarOpen, checks, checksStarted, healthSucceeded>>

vars == <<streamVars, chatVars, appVars>>

(***************************************************************************)
(* The response bodies: up to MaxLines lines, each one of LineKinds, each  *)
(* followed by a newline except possibly the last.                         *)
(***************************************************************************)
LineKinds ==
    { DataPrefix \o <<"a">>,              \* data: <content event>
      DataPrefix \o <<"D">>,              \* data: <event with done = true>
      DataPrefix \o <<"x">>,              \* data: <not JSON>
      <<"d", "a", "t", "a", ":", "a">>,   \* no blank after the colon
      <<>> }                              \* the blank line between SSE events

LineSeqs == UNION { [1..n -> LineKinds] : n \in 0..MaxLines }

RECURSIVE JoinLines(_)
JoinLines(ls) ==
    IF ls = <<>> THEN <<>> ELSE Head(ls) \o <<NL>> \o JoinLines(Tail(ls))

Bodies ==
    { JoinLines(ls) : ls \in LineSeqs } \cup
    { SubSeq(JoinLines(ls), 1, Len(JoinLines(ls)) - 1) : ls \in LineSeqs \ {<<>>} }

(***************************************************************************)
(* pump (api.ts:80-104)                                                    *)
(***************************************************************************)
\* Variant of ParsedEvents: each value is put in front of the earlier ones.
RECURSIVE ParsedEvents_reversed(_)
ParsedEvents_reversed(lines) ==
    IF lines = <<>> THEN <<>>
    ELSE LET line == Head(lines)
             rest == ParsedEvents_reversed(Tail(lines))
         IN  IF StartsWith(line, DataPrefix) /\ JsonParses(Slice(line, Len(DataPrefix)))
             THEN rest \o <<JsonParse(Slice(line, Len(DataPrefix)))>>
             ELSE rest

\* for (const line of lines) { if startsWith("data: ") try { JSON.parse ... } }
\* : the values handed to controller.enqueue, in the order of the loop.
RECURSIVE ParsedEvents(_)
ParsedEvents(lines) ==
    IF lines = <<>> THEN <<>>
    ELSE LET line == Head(lines)
             rest == ParsedEvents(Tail(lines))
         IN  IF StartsWith(line, DataPrefix) /\ JsonParses(Slice(line, Len(DataPrefix)))
             THEN <<JsonParse(Slice(line, Len(DataPrefix)))>> \o rest
             ELSE rest

\* const lines = buffer.split("\n"); buffer = lines.pop() || "";
CompleteLines(text) == LET ls == Split(text) IN SubSeq(ls, 1, Len(ls) - 1)
\* Variant of RemainingBuffer: the consumed lines are not dropped.
RemainingBuffer_keepsAll(text) == text

RemainingBuffer(text) == LET ls == Split(text) IN ls[Len(ls)]

\* ReadableStreamDefaultControllerCanCloseOrEnqueue
CanCloseOrEnqueue == streamState = "readable" /\ ~closeRequested

\* Variant of EnqueueAll: the values are queued whatever the stream's state.
EnqueueAll_unguarded(evs) ==
    /\ queue' = queue \o evs
    /\ enqueued' = enqueued \o evs
    /\ UNCHANGED <<delivered, readRequests>>

\* controller.enqueue(data) for each value of evs in turn, inside the try of
\* api.ts:93-98.  A pending read request takes the value directly, otherwise
\* it joins the queue.  When the stream cannot enqueue, enqueue throws a
\* TypeError, which the catch swallows: nothing changes.
EnqueueAll(evs) ==
    IF CanCloseOrEnqueue
    THEN LET direct == Min(readRequests, Len(evs))
         IN  /\ delivered' = delivered \o SubSeq(evs, 1, direct)
             /\ readRequests' = readRequests - direct
             /\ queue' = queue \o SubSeq(evs, direct + 1, Len(evs))
             /\ enqueued' = enqueued \o evs
    ELSE UNCHANGED <<delivered, readRequests, queue, enqueued>>

\* Variant of PumpChunk: the text is only collected until the last
\* characters of the body arrive, and split and parsed then.
PumpChunk_buffersAll(n) ==
    /\ pumpPc = "reading"
    /\ pos + n <= Len(body)
    /\ LET text == buffer \o SubSeq(body, pos + 1, pos + n)
       IN  IF pos + n = Len(body)
           THEN /\ buffer' = RemainingBuffer(text)
                /\ EnqueueAll(ParsedEvents(CompleteLines(text)))
           ELSE /\ buffer' = text
                /\ UNCHANGED <<delivered, readRequests, queue, enqueued>>
    /\ pos' = pos + n
    /\ UNCHANGED <<response, body, pumpPc, streamState, closeRequested, cancelled,
                   observedFailure>>
    /\ UNCHANGED <<chatVars, appVars>>

\* reader.read() resolves with the next n characters of the body.
PumpChunk(n) ==
    /\ pumpPc = "reading"
    /\ pos + n <= Len(body)
    /\ LET text == buffer \o SubSeq(body, pos + 1, pos + n)
       IN  /\ buffer' = RemainingBuffer(text)
           /\ EnqueueAll(ParsedEvents(CompleteLines(text)))
    /\ pos' = pos + n
    /\ UNCHANGED <<response, body, pumpPc, streamState, closeRequested, cancelled,
                   observedFailure>>
    /\ UNCHANGED <<chatVars, appVars>>

\* reader.read() resolves with done: controller.close(); return.
\* close() throws when the stream is no longer readable; the promise of
\* pump() then rejects and the start algorithm's rejection handler runs
\* ReadableStreamDefaultControllerError, a no-op on a stream not readable.
PumpDone ==
    /\ pumpPc = "reading"
    /\ pos = Len(body)
    /\ IF CanCloseOrEnqueue
       THEN /\ closeRequested' = TRUE
            /\ streamState' = IF queue = <<>> THEN "closed" ELSE streamState
            /\ readRequests' = IF queue = <<>> THEN 0 ELSE readRequests
            /\ pumpPc' = "done"
       ELSE /\ pumpPc' = "failed"
            /\ UNCHANGED <<closeRequested, streamState, readRequests>>
    /\ UNCHANGED <<response, body, pos, buffer, queue, delivered, enqueued, cancelled,
                   observedFailure>>
    /\ UNCHANGED <<chatVars, appVars>>

\* reader.read() rejects (the connection fails): nothing catches it, the
\* promise returned by start() rejects and the stream is errored:
\* ReadableStreamDefaultControllerError resets the queue and rejects the
\* pending read requests.
PumpReadRejects ==
    /\ pumpPc = "reading"
    /\ pumpPc' = "failed"
    /\ IF streamState = "readable"
       THEN /\ queue' = <<>>
            /\ streamState' = "errored"
            /\ observedFailure' = (observedFailure \/ readRequests > 0)
            /\ readRequests' = 0
       ELSE UNCHANGED <<queue, streamState, observedFailure, readRequests>>
    /\ UNCHANGED <<response, body, pos, buffer, closeRequested, delivered, enqueued,
                   cancelled>>
    /\ UNCHANGED <<chatVars, appVars>>

(***************************************************************************)
(* The consumer of the returned stream.                                    *)
(***************************************************************************)
\* reader.read()
ConsumerRead ==
    \/ /\ streamState = "readable"
       /\ queue # <<>>
       /\ delivered' = Append(delivered, Head(queue))
       /\ queue' = Tail(queue)
       /\ streamState' = IF closeRequested /\ Tail(queue) = <<>>
                         THEN "closed" ELSE streamState
       /\ UNCHANGED <<readRequests, observedFailure>>
    \/ /\ streamState = "readable"
       /\ queue = <<>>
       /\ readRequests < MaxReadRequests
       /\ readRequests' = readRequests + 1
       /\ UNCHANGED <<delivered, queue, streamState, observedFailure>>
    \/ /\ streamState = "errored"
       /\ observedFailure' = TRUE
       /\ UNCHANGED <<delivered, queue, streamState, readRequests>>

ConsumerReads ==
    /\ ConsumerRead
    /\ UNCHANGED <<response, body, pos, buffer, pumpPc, closeRequested, enqueued, cancelled>>
    /\ UNCHANGED <<chatVars, appVars>>

\* reader.cancel() / stream.cancel() on a readable stream: the stream is
\* closed, pending reads resolve with done, the queue is reset.  The
\* underlying source has no cancel(), so the pump is not told.
ConsumerCancels ==
    /\ streamState = "readable"
    /\ streamState' = "closed"
    /\ queue' = <<>>
    /\ readRequests' = 0
    /\ cancelled' = TRUE
    /\ UNCHANGED <<response, body, pos, buffer, pumpPc, closeRequested, delivered,
                   enqueued, observedFailure>>
    /\ UNCHANGED <<chatVars, appVars>>

\* new ReadableStream({ start(controller) { ... return pump(); } }) on body b
StreamStart(b) ==
    /\ response = [arrived |-> TRUE, ok |-> TRUE, hasBody |-> TRUE]
    /\ body = b
    /\ pos = 0
    /\ buffer = <<>>
    /\ pumpPc = "reading"
    /\ streamState = "readable"
    /\ closeRequested = FALSE
    /\ queue = <<>>
    /\ readRequests = 0
    /\ delivered = <<>>
    /\ enqueued = <<>>
    /\ cancelled = FALSE
    /\ observedFailure = FALSE

\* streamMessage(request) has been called and awaits fetch; b is the body
\* the server will send
StreamCalled(b) ==
    /\ response = [arrived |-> FALSE, ok |-> FALSE, hasBody |-> FALSE]
    /\ body = b
    /\ pos = 0
    /\ buffer = <<>>
    /\ pumpPc = "fetching"
    /\ streamState = "none"
    /\ closeRequested = FALSE
    /\ queue = <<>>
    /\ readRequests = 0
    /\ delivered = <<>>
    /\ enqueued = <<>>
    /\ cancelled = FALSE
    /\ observedFailure = FALSE

StreamInit == \E b \in Bodies : StreamCalled(b)

\* Variant of FetchResolved: response.ok is not looked at.
FetchResolved_ignoresStatus(ok, hasBody) ==
    /\ pumpPc = "fetching"
    /\ response' = [arrived |-> TRUE, ok |-> ok, hasBody |-> hasBody]
    /\ IF ~hasBody
       THEN /\ pumpPc' = "threw"
            /\ UNCHANGED streamState
       ELSE /\ pumpPc' = "reading"
            /\ streamState' = "readable"
    /\ UNCHANGED <<body, pos, buffer, closeRequested, queue, readRequests,
                   delivered, enqueued, cancelled, observedFailure>>
    /\ UNCHANGED <<chatVars, appVars>>

\* await fetch(...) resolves (api.ts:58-108): throw when !response.ok, throw
\* when response.body gives no reader, else construct the stream, whose
\* start() calls pump(), and return it.
FetchResolved(ok, hasBody) ==
    /\ pumpPc = "fetching"
    /\ response' = [arrived |-> TRUE, ok |-> ok, hasBody |-> hasBody]
    /\ IF ~ok
       THEN /\ pumpPc' = "threw"
            /\ UNCHANGED streamState
       ELSE IF ~hasBody
       THEN /\ pumpPc' = "threw"
            /\ UNCHANGED streamState
       ELSE /\ pumpPc' = "reading"
            /\ streamState' = "readable"
    /\ UNCHANGED <<body, pos, buffer, closeRequested, queue, readRequests,
                   delivered, enqueued, cancelled, observedFailure>>
    /\ UNCHANGED <<chatVars, appVars>>

\* await fetch(...) rejects (no connection): streamMessage rejects with it
FetchRejects ==
    /\ pumpPc = "fetching"
    /\ pumpPc' = "threw"
    /\ UNCHANGED <<response, body, pos, buffer, streamState, closeRequested,
                   queue, readRequests, delivered, enqueued, cancelled,
                   observedFailure>>
    /\ UNCHANGED <<chatVars, appVars>>

FetchResolves == \E ok \in BOOLEAN, hasBody \in BOOLEAN : FetchResolved(ok, hasBody)

PumpReads == \E n \in 1..MaxChunk : PumpChunk(n)

StreamNext ==
    \/ FetchResolves
    \/ FetchRejects
    \/ PumpReads
    \/ PumpDone
    \/ PumpReadRejects
    \/ ConsumerReads
    \/ ConsumerCancels



(***************************************************************************)
(* ChatInterface (components/ChatInterface.tsx, src/unnamed/part_000)      *)
(*                                                                         *)
(* A handler runs to completion and React commits the state it set before  *)
(* the next event is dispatched, so each handler reads the committed state *)
(* and `messages`, `isLoading`, `inputMessage` of its closure are the      *)
(* values at the time of the call.  Timestamps are not modelled.           *)
(***************************************************************************)
MaxRequests == 2
TickMs == 10000

\* axios.create({ timeout: 30000 })
timeout == 30000

\* the drafts the user types: empty, blank, plain, with blanks to trim
InputTexts == { <<>>, <<" ">>, <<"a">>, <<" ", "a">>, <<"a", " ">>, <<"b">> }

\* String.prototype.trim
RECURSIVE Trim(_)
Trim(s) ==
    IF s = <<>> THEN <<>>
    ELSE IF Head(s) = " " THEN Trim(Tail(s))
    ELSE IF s[Len(s)] = " " THEN Trim(SubSeq(s, 1, Len(s) - 1))
    ELSE s

\* the three "Try asking" texts: not blank, nothing to trim
SuggestionTexts == { t \in InputTexts : t # <<>> /\ Trim(t) = t }

\* the fixed text of the error turn
ApologyText ==
    <<"Sorry, I encountered an error while processing your message. Please try again.">>

\* ChatResponse: response and the optional sources
ResponseTexts == { <<"r">>, <<"s">> }
SourceOptions ==
    { [present |-> FALSE, list |-> <<>>],
      [present |-> TRUE,  list |-> <<>>],
      [present |-> TRUE,  list |-> <<"src1">>] }
Responses == [response : ResponseTexts, sources : SourceOptions]

\* Variant of AppendTurn: the new turn is put in front.
AppendTurn_inFront(prev, m) == <<m>> \o prev

\* setMessages((prev) => [...prev, m])
AppendTurn(prev, m) == Append(prev, m)

\* const userMessage = { role: "user", content: inputMessage.trim(), ... }
UserMessage(input) == [role |-> "user", content |-> Trim(input)]

\* Variant of AssistantMessage: the turn does not carry the response text.
AssistantMessage_otherText(resp) == [role |-> "assistant", content |-> <<>>]

\* const assistantMessage = { role: "assistant", content: response.response, ... }
AssistantMessage(resp) == [role |-> "assistant", content |-> resp.response]

\* const errorMessage = { role: "assistant", content: "Sorry, ...", ... }
ErrorMessage == [role |-> "assistant", content |-> ApologyText]

\* Variant of SendRejected: isLoading is not consulted.
SendRejected_ignoresLoading == Trim(inputMessage) = <<>>

\* if (!inputMessage.trim() || isLoading) return;
SendRejected == Trim(inputMessage) = <<>> \/ isLoading

\* Variant of ChatRequestOf: the history already holds the new user turn.
ChatRequestOf_withNewTurn(userMessage, closureMessages) ==
    [message |-> userMessage.content,
     conversation_history |-> Append(closureMessages, userMessage),
     use_rag |-> TRUE]

\* { message: userMessage.content, conversation_history: messages, use_rag: true }
ChatRequestOf(userMessage, closureMessages) ==
    [message |-> userMessage.content,
     conversation_history |-> closureMessages,
     use_rag |-> TRUE]

\* Variant of SourcesAfterSend: the sources shown are left as they are.
SourcesAfterSend_kept == currentSources

\* setCurrentSources([]) of a send
SourcesAfterSend == <<>>

\* handleSendMessage up to its await
HandleSendMessage ==
    /\ Len(sent) < MaxRequests
    /\ IF SendRejected
       THEN /\ blockedSends' = (blockedSends \/ Trim(inputMessage) # <<>>)
            /\ UNCHANGED <<messages, inputMessage, isLoading, currentSources,
                           showSources, pending, sent, received, streamVars, appVars>>
       ELSE LET userMessage == UserMessage(inputMessage)
                request == ChatRequestOf(userMessage, messages)
            IN  /\ messages' = AppendTurn(messages, userMessage)
                /\ inputMessage' = <<>>
                /\ isLoading' = TRUE
                /\ currentSources' = SourcesAfterSend
                /\ showSources' = FALSE
                /\ pending' = pending \cup
                       {[id |-> Len(sent) + 1, request |-> request, elapsed |-> 0]}
                /\ sent' = Append(sent, request)
                /\ UNCHANGED <<received, blockedSends, streamVars, appVars>>

\* Variant of ResponseArrives: the panel is opened whether or not the
\* response has sources.
ResponseArrives_alwaysShows(r, resp) ==
    /\ r \in pending
    /\ r.elapsed < timeout
    /\ messages' = AppendTurn(messages, AssistantMessage(resp))
    /\ currentSources' = IF resp.sources.present /\ Len(resp.sources.list) > 0
                         THEN resp.sources.list ELSE currentSources
    /\ showSources' = TRUE
    /\ isLoading' = FALSE
    /\ pending' = pending \ {r}
    /\ received' = Append(received, resp)
    /\ UNCHANGED <<inputMessage, sent, blockedSends, streamVars, appVars>>

\* the await resolves: the rest of the try block, then finally
ResponseArrives(r, resp) ==
    /\ r \in pending
    /\ r.elapsed < timeout
    /\ messages' = AppendTurn(messages, AssistantMessage(resp))
    /\ IF resp.sources.present /\ Len(resp.sources.list) > 0
       THEN /\ currentSources' = resp.sources.list
            /\ showSources' = TRUE
       ELSE UNCHANGED <<currentSources, showSources>>
    /\ isLoading' = FALSE
    /\ pending' = pending \ {r}
    /\ received' = Append(received, resp)
    /\ UNCHANGED <<inputMessage, sent, blockedSends, streamVars, appVars>>

\* Variant of CatchFinally: the failure path leaves isLoading set.
CatchFinally_staysLoading(r) ==
    /\ messages' = AppendTurn(messages, ErrorMessage)
    /\ pending' = pending \ {r}
    /\ UNCHANGED <<isLoading, inputMessage, currentSources, showSources, sent,
                   received, blockedSends, streamVars, appVars>>

\* Variant of CatchFinally: the error turn is appended to the list the
\* handler's closure holds, the list before the user turn was added.
CatchFinally_closureList(r) ==
    /\ messages' = AppendTurn(r.request.conversation_history, ErrorMessage)
    /\ isLoading' = FALSE
    /\ pending' = pending \ {r}
    /\ UNCHANGED <<inputMessage, currentSources, showSources, sent, received,
                   blockedSends, streamVars, appVars>>

\* the await rejects: catch, then finally
CatchFinally(r) ==
    /\ messages' = AppendTurn(messages, ErrorMessage)
    /\ isLoading' = FALSE
    /\ pending' = pending \ {r}
    /\ UNCHANGED <<inputMessage, currentSources, showSources, sent, received,
                   blockedSends, streamVars, appVars>>

\* the request fails: network error or an HTTP error status
RequestFails(r) ==
    /\ r \in pending
    /\ CatchFinally(r)

\* the request has been out for `timeout` ms: axios rejects it
TimeoutFires(r) ==
    /\ r \in pending
    /\ r.elapsed >= timeout
    /\ CatchFinally(r)

\* time passes while a request is out
Tick ==
    /\ \E r \in pending : r.elapsed < timeout
    /\ pending' = { IF r.elapsed < timeout
                    THEN [r EXCEPT !.elapsed = @ + TickMs] ELSE r : r \in pending }
    /\ UNCHANGED <<messages, inputMessage, isLoading, currentSources,
                   showSources, sent, received, blockedSends, streamVars, appVars>>

\* <textarea onChange disabled={isLoading}>
OnChange(t) ==
    /\ ~isLoading
    /\ inputMessage' = t
    /\ UNCHANGED <<messages, isLoading, currentSources, showSources, pending,
                   sent, received, blockedSends, streamVars, appVars>>

\* the "Try asking" buttons, rendered while messages is empty
Suggestion(t) ==
    /\ messages = <<>>
    /\ inputMessage' = t
    /\ UNCHANGED <<messages, isLoading, currentSources, showSources, pending,
                   sent, received, blockedSends, streamVars, appVars>>

\* Variant of clearChat: the draft and the loading flag are reset as well.
clearChat_resetsAll ==
    /\ messages' = <<>>
    /\ currentSources' = <<>>
    /\ showSources' = FALSE
    /\ inputMessage' = <<>>
    /\ isLoading' = FALSE
    /\ UNCHANGED <<pending, sent, received, blockedSends, streamVars, appVars>>

clearChat ==
    /\ messages' = <<>>
    /\ currentSources' = <<>>
    /\ showSources' = FALSE
    /\ UNCHANGED <<inputMessage, isLoading, pending, sent, received,
                   blockedSends, streamVars, appVars>>

\* the Sources button, rendered while currentSources is not empty
ToggleSources ==
    /\ Len(currentSources) > 0
    /\ showSources' = ~showSources
    /\ UNCHANGED <<messages, inputMessage, isLoading, currentSources, pending,
                   sent, received, blockedSends, streamVars, appVars>>

\* onClose of SourcesPanel, rendered while showSources and sources exist
CloseSources ==
    /\ showSources
    /\ Len(currentSources) > 0
    /\ showSources' = FALSE
    /\ UNCHANGED <<messages, inputMessage, isLoading, currentSources, pending,
                   sent, received, blockedSends, streamVars, appVars>>

ChatInit ==
    /\ messages = <<>>
    /\ inputMessage = <<>>
    /\ isLoading = FALSE
    /\ currentSources = <<>>
    /\ showSources = FALSE
    /\ pending = {}
    /\ sent = <<>>
    /\ received = <<>>
    /\ blockedSends = FALSE

Types == \E t \in InputTexts : OnChange(t)
Suggests == \E t \in SuggestionTexts : Suggestion(t)
Responds == \E r \in pending, resp \in Responses : ResponseArrives(r, resp)
Fails == \E r \in pending : RequestFails(r)
TimesOut == \E r \in pending : TimeoutFires(r)

ChatNext ==
    \/ Types
    \/ Suggests
    \/ HandleSendMessage
    \/ Responds
    \/ Fails
    \/ TimesOut
    \/ Tick
    \/ clearChat
    \/ ToggleSources
    \/ CloseSources

(***************************************************************************)
(* App (App.tsx)                                                           *)
(***************************************************************************)
MaxChecks == 4

\* what App returns: the spinner, the error page with the Retry button, or
\* the page with Header, Sidebar and ChatInterface
View ==
    IF isConnected = "null" THEN "connecting"
    ELSE IF isConnected = "false" THEN "error"
    ELSE "chat"

\* checkConnection up to its await
StartCheck ==
    /\ checksStarted < MaxChecks
    /\ checks' = checks \cup {[id |-> checksStarted + 1, elapsed |-> 0]}
    /\ checksStarted' = checksStarted + 1
    /\ UNCHANGED <<isConnected, sidebarOpen, healthSucceeded, streamVars, chatVars>>

\* useEffect(() => { checkConnection(); }, []) after the first render
MountEffect ==
    /\ checksStarted = 0
    /\ StartCheck

\* the Retry Connection button, rendered on the error page
RetryConnection ==
    /\ View = "error"
    /\ StartCheck

\* await healthAPI.checkHealth() resolves: setIsConnected(true)
HealthResolved(c) ==
    /\ c \in checks
    /\ c.elapsed < timeout
    /\ isConnected' = "true"
    /\ healthSucceeded' = TRUE
    /\ checks' = checks \ {c}
    /\ UNCHANGED <<sidebarOpen, checksStarted, streamVars, chatVars>>

\* catch: setIsConnected(false)
CheckCatch(c) ==
    /\ isConnected' = "false"
    /\ checks' = checks \ {c}
    /\ UNCHANGED <<sidebarOpen, checksStarted, healthSucceeded, streamVars, chatVars>>

\* the health request fails: network error or an HTTP error status
HealthRejected(c) ==
    /\ c \in checks
    /\ CheckCatch(c)

\* the health request has been out for `timeout` ms: axios rejects it
HealthTimedOut(c) ==
    /\ c \in checks
    /\ c.elapsed >= timeout
    /\ CheckCatch(c)

\* time passes while a health request is out
AppTick ==
    /\ \E c \in checks : c.elapsed < timeout
    /\ checks' = { IF c.elapsed < timeout
                   THEN [c EXCEPT !.elapsed = @ + TickMs] ELSE c : c \in checks }
    /\ UNCHANGED <<isConnected, sidebarOpen, checksStarted, healthSucceeded,
                   streamVars, chatVars>>

\* <Header onMenuClick={() => setSidebarOpen(true)} />
OpenSidebar ==
    /\ View = "chat"
    /\ sidebarOpen' = TRUE
    /\ UNCHANGED <<isConnected, checks, checksStarted, healthSucceeded,
                   streamVars, chatVars>>

\* <Sidebar onClose={() => setSidebarOpen(false)} />
CloseSidebar ==
    /\ View = "chat"
    /\ sidebarOpen' = FALSE
    /\ UNCHANGED <<isConnected, checks, checksStarted, healthSucceeded,
                   streamVars, chatVars>>

\* App before its mount effect has run
AppInit ==
    /\ isConnected = "null"
    /\ sidebarOpen = FALSE
    /\ checks = {}
    /\ checksStarted = 0
    /\ healthSucceeded = FALSE

\* App showing the chat page, the state in which ChatInterface is mounted
AppConnected ==
    /\ isConnected = "true"
    /\ sidebarOpen = FALSE
    /\ checks = {}
    /\ checksStarted = 1
    /\ healthSucceeded = TRUE

HealthResolves == \E c \in checks : HealthResolved(c)
HealthRejects == \E c \in checks : HealthRejected(c)
HealthTimesOut == \E c \in checks : HealthTimedOut(c)

AppNext ==
    \/ MountEffect
    \/ RetryConnection
    \/ HealthResolves
    \/ HealthRejects
    \/ HealthTimesOut
    \/ AppTick
    \/ OpenSidebar
    \/ CloseSidebar

(***************************************************************************)
(* Specifications.                                                         *)
(***************************************************************************)
\* one streaming request, from the construction of its stream
InitStream ==
    /\ StreamInit
    /\ ChatInit
    /\ AppConnected

SpecStream == InitStream /\ [][StreamNext]_vars

\* one mounted ChatInterface
InitChat ==
    /\ ChatInit
    /\ StreamStart(<<>>)
    /\ AppConnected

SpecChat == InitChat /\ [][ChatNext]_vars

\* time passes while a request is out, and the axios timeout fires when due
FairSpecChat == SpecChat /\ WF_vars(Tick) /\ WF_vars(TimesOut)

\* App from its first render
InitApp ==
    /\ AppInit
    /\ ChatInit
    /\ StreamStart(<<>>)

SpecApp == InitApp /\ [][AppNext]_vars

(***************************************************************************)
(* Vocabulary of the claims about streamMessage: what the server sent,     *)
(* read off the body as a whole.                                           *)
(***************************************************************************)
IsEventLine(line) ==
    /\ StartsWith(line, DataPrefix)
    /\ JsonParses(Slice(line, Len(DataPrefix)))

EventsOfLines(lines) ==
    LET sel == SelectSeq(lines, IsEventLine)
    IN  [i \in 1..Len(sel) |-> JsonParse(Slice(sel[i], Len(DataPrefix)))]

NewlineCount(text) == Cardinality({i \in 1..Len(text) : text[i] = NL})

\* the lines of text whose terminating newline is in text
TerminatedLines(text) == SubSeq(Split(text), 1, NewlineCount(text))

Received == SubSeq(body, 1, pos)

\* every event of a `data: ` line of the body, in the order of the lines
BodyEvents == EventsOfLines(Split(body))

\* The backend's side of the streaming contract (spec section 6): the event
\* with done = true, if the server sends one, is the last event it sends.
ServerEndsAtDone ==
    \A i \in 1..Len(BodyEvents) : BodyEvents[i].done => i = Len(BodyEvents)

(***************************************************************************)
(* C1: the events enqueued on the stream, and the events the consumer's    *)
(* reads return, come in the order of their `data: ` lines in the response *)
(* body, none reordered or duplicated, however the consumer reads.         *)
(***************************************************************************)
C1_EmissionOrder ==
    /\ IsPrefix(enqueued, BodyEvents)
    /\ IsPrefix(delivered, enqueued)

C1_Witness ==
    /\ Len(delivered) >= 2
    /\ delivered[1] # delivered[2]
    /\ Len(enqueued) > Len(delivered)

C3_NoEventAfterCancel ==
    [][cancelled =>
         /\ enqueued' = enqueued
         /\ delivered' = delivered
         /\ queue' = queue]_vars

\* the pump has taken an event line from the body after the cancellation
C3_Witness ==
    /\ cancelled
    /\ Len(EventsOfLines(TerminatedLines(Received))) > Len(enqueued)

(***************************************************************************)
(* C4: once the consumer has observed the failure of the body, it has      *)
(* observed every event streamMessage had received, in order.              *)
(***************************************************************************)
C4_ReceivedEventsSurviveFailure ==
    observedFailure => delivered = enqueued

(***************************************************************************)
(* C5: whenever the pump issues a read, every event whose terminating      *)
(* newline has arrived has been enqueued (unless the consumer cancelled):  *)
(* the response is not buffered up to its end.                             *)
(***************************************************************************)
C5_EnqueuedBeforeNextRead ==
    (pumpPc = "reading" /\ ~cancelled) =>
        enqueued = EventsOfLines(TerminatedLines(Received))

\* the consumer holds the first event while the body is still arriving
C5_Witness ==
    /\ pumpPc = "reading"
    /\ pos < Len(body)
    /\ delivered # <<>>
    /\ Len(BodyEvents) > Len(delivered)

(***************************************************************************)
(* Vocabulary of the claims about ChatInterface.                           *)
(***************************************************************************)
Last(seq) == seq[Len(seq)]

ExtendsByOne(old, new) ==
    /\ Len(new) = Len(old) + 1
    /\ SubSeq(new, 1, Len(old)) = old

PendingIds(p) == { r.id : r \in p }

(***************************************************************************)
(* C6: the step in which a chat request completes successfully appends     *)
(* exactly one message, the assistant turn whose content is the response   *)
(* text, and no other step appends an assistant turn with a response text. *)
(***************************************************************************)
C6_AssistantTurnOnce ==
    [][/\ received' # received =>
            /\ received' = Append(received, Last(received'))
            /\ messages' = Append(messages,
                   [role |-> "assistant", content |-> Last(received').response])
       /\ received' = received =>
            ~ \E t \in ResponseTexts :
                messages' = Append(messages, [role |-> "assistant", content |-> t])
      ]_vars

\* two requests completed, each answered once
C6_Witness ==
    /\ Len(received) = 2
    /\ Len(messages) = 4
    /\ messages[2] = [role |-> "assistant", content |-> received[1].response]
    /\ messages[4] = [role |-> "assistant", content |-> received[2].response]
    /\ received[1].response # received[2].response

(***************************************************************************)
(* C7: at most one chat request is in flight, isLoading is set while one   *)
(* is, and while isLoading is set no step sends a request, puts one in     *)
(* flight or appends a user turn; a call of handleSendMessage then changes *)
(* nothing.                                                                *)
(***************************************************************************)
C7_OneInFlight ==
    /\ [](Cardinality(pending) <= 1 /\ (pending # {} => isLoading))
    /\ [][isLoading =>
            /\ sent' = sent
            /\ PendingIds(pending') \subseteq PendingIds(pending)
            /\ ~ (ExtendsByOne(messages, messages') /\ Last(messages').role = "user")
            /\ blockedSends' # blockedSends => UNCHANGED
                   <<messages, inputMessage, isLoading, currentSources,
                     showSources, pending, sent, received>>
         ]_vars

\* handleSendMessage was called with a draft while a request was in flight
C7_Witness ==
    /\ blockedSends
    /\ isLoading
    /\ pending # {}
    /\ Trim(inputMessage) # <<>>

(***************************************************************************)
(* C8: the request of a send carries the trimmed input as message, the     *)
(* turns that were in the list before the user turn was appended, in       *)
(* order, as conversation_history, and use_rag = true.                     *)
(***************************************************************************)
C8_RequestCarries ==
    [][sent' # sent =>
         LET req == Last(sent')
         IN  /\ sent' = Append(sent, req)
             /\ req.message = Trim(inputMessage)
             /\ req.conversation_history = messages
             /\ req.use_rag = TRUE
             /\ messages' = Append(messages, [role |-> "user", content |-> req.message])
      ]_vars

\* a second request went out with the first exchange as its history
C8_Witness ==
    /\ Len(sent) >= 2
    /\ Len(sent[2].conversation_history) = 2
    /\ sent[2].conversation_history[1].role = "user"
    /\ sent[2].conversation_history[2].role = "assistant"
    /\ sent[2].message # sent[1].message

(***************************************************************************)
(* C9: every step leaves the turn list unchanged, or adds one turn at the  *)
(* newest end leaving the existing turns and their order as they were, or  *)
(* is clearChat's reset, which empties the list.                           *)
(***************************************************************************)
C9_AppendOnly ==
    [][\/ messages' = messages
       \/ ExtendsByOne(messages, messages')
       \/ /\ messages' = <<>>
          /\ currentSources' = <<>>
          /\ showSources' = FALSE
          /\ UNCHANGED <<inputMessage, isLoading, pending, sent, received>>
      ]_vars

\* the list grew over two exchanges, the latest appended to a non-empty list
C9_Witness ==
    /\ Len(messages) = 4
    /\ messages[1].role = "user"
    /\ messages[4].role = "assistant"
    /\ Len(sent) = 2

(***************************************************************************)
(* C10: a chat request that is in flight eventually settles, and isLoading *)
(* is then false again: by the response, by an error, or at the latest by  *)
(* the client timeout.                                                     *)
(***************************************************************************)
C10_RequestSettles ==
    (isLoading \/ pending # {}) ~> (~isLoading /\ pending = {})

\* a request has been out for the whole timeout
C10_Witness ==
    \E r \in pending : r.elapsed >= timeout /\ isLoading

(***************************************************************************)
(* C11: the step in which a chat request fails appends exactly one turn,   *)
(* the assistant turn with the fixed apology text, and keeps every turn    *)
(* that was in the list, the user turn of the request included.            *)
(***************************************************************************)
C11_FailureAppendsApology ==
    [][(PendingIds(pending') # PendingIds(pending) /\ sent' = sent
            /\ received' = received) =>
         /\ messages' = Append(messages,
                [role |-> "assistant", content |-> ApologyText])
         /\ \A i \in 1..Len(messages) : messages'[i] = messages[i]
      ]_vars

\* a request failed: its user turn is still there, followed by the apology
C11_Witness ==
    /\ Len(sent) = 1
    /\ pending = {}
    /\ received = <<>>
    /\ Len(messages) = 2
    /\ messages[1] = [role |-> "user", content |-> sent[1].message]
    /\ messages[2] = [role |-> "assistant", content |-> ApologyText]

(***************************************************************************)
(* C12: when the response of the streaming request is not OK or has no     *)
(* body (or fetch itself fails), streamMessage throws and returns no       *)
(* stream: no stream exists, nothing is read from the body and no event is *)
(* enqueued or delivered.                                                  *)
(***************************************************************************)
C12_UnavailableThrows ==
    (\/ pumpPc = "threw"
     \/ (response.arrived /\ (~response.ok \/ ~response.hasBody))) =>
        /\ pumpPc = "threw"
        /\ streamState = "none"
        /\ pos = 0
        /\ enqueued = <<>>
        /\ queue = <<>>
        /\ delivered = <<>>

\* an error response whose body carries event lines
C12_Witness ==
    /\ response.arrived
    /\ ~response.ok
    /\ response.hasBody
    /\ BodyEvents # <<>>
    /\ pumpPc = "threw"

(***************************************************************************)
(* C13: currentSources always holds the sources of the answer to the most  *)
(* recent request and nothing else: it is empty while a request is in      *)
(* flight, after a failed request, after a response without sources and    *)
(* after clearChat, and otherwise equals the sources of the last response, *)
(* whose turn is the newest in the list.                                   *)
(***************************************************************************)
SourcesOfLatestAnswer ==
    IF /\ ~isLoading
       /\ received # <<>>
       /\ messages # <<>>
       /\ Last(messages) = [role |-> "assistant", content |-> Last(received).response]
       /\ Last(received).sources.present
    THEN Last(received).sources.list
    ELSE <<>>

C13_SourcesBelongToLatest ==
    /\ currentSources = SourcesOfLatestAnswer
    /\ isLoading => currentSources = <<>>

\* the first answer came with sources, the second without: none are shown
C13_Witness ==
    /\ Len(received) = 2
    /\ Len(received[1].sources.list) > 0
    /\ ~received[2].sources.present
    /\ Len(messages) = 4
    /\ currentSources = <<>>

(***************************************************************************)
(* C14: a step that empties a non-empty turn list (clearChat) also empties *)
(* currentSources and sets showSources to false, and leaves the draft      *)
(* inputMessage, the isLoading flag and the request in flight as they were.*)
(***************************************************************************)
C14_ClearChatFrame ==
    [][(messages # <<>> /\ messages' = <<>>) =>
         /\ currentSources' = <<>>
         /\ showSources' = FALSE
         /\ inputMessage' = inputMessage
         /\ isLoading' = isLoading
         /\ pending' = pending
      ]_vars

\* the chat was cleared while its request was in flight
C14_Witness ==
    /\ messages = <<>>
    /\ currentSources = <<>>
    /\ ~showSources
    /\ Len(sent) = 1
    /\ isLoading
    /\ pending # {}

(***************************************************************************)
(* C15: in every reachable state the turn list alternates roles, starting  *)
(* with a user turn: user, assistant, user, ...                            *)
(***************************************************************************)
C15_RolesAlternate ==
    \A i \in 1..Len(messages) :
        messages[i].role = IF i % 2 = 1 THEN "user" ELSE "assistant"

(***************************************************************************)
(* C16: when the body has ended and the pump has closed the stream, every  *)
(* `data: ` line with valid JSON that the server sent has been enqueued    *)
(* exactly once, in order, however the body was split across reads.        *)
(***************************************************************************)
C16_NoEventLostOrDuplicated ==
    pumpPc = "done" => enqueued = BodyEvents

(***************************************************************************)
(* C17: a line that does not start with `data: `, or whose payload is not  *)
(* JSON, is skipped: nothing is enqueued for it, it neither closes nor     *)
(* errors the stream, and once the body has ended every valid event of a   *)
(* later line has been enqueued, in order.                                 *)
(***************************************************************************)
IsSuffix(s, t) ==
    Len(s) <= Len(t) /\ SubSeq(t, Len(t) - Len(s) + 1, Len(t)) = s

C17_InvalidLinesSkipped ==
    (~cancelled /\ pumpPc \in {"reading", "done"}) =>
        /\ streamState # "errored"
        /\ pumpPc = "reading" => streamState = "readable"
        /\ IsPrefix(enqueued, BodyEvents)
        /\ pumpPc = "done" =>
             LET lines == Split(body)
             IN  \A k \in 1..Len(lines) :
                    ~IsEventLine(lines[k]) =>
                        IsSuffix(EventsOfLines(SubSeq(lines, k + 1, Len(lines))),
                                 enqueued)

(***************************************************************************)
(* C19: in every reachable state, showSources = true implies that          *)
(* currentSources is not empty.                                            *)
(***************************************************************************)
C19_ShownSourcesExist ==
    showSources => Len(currentSources) > 0

\* the panel shows the sources of a second answer
C19_Witness ==
    /\ showSources
    /\ Len(currentSources) > 0
    /\ Len(received) = 2
    /\ ~isLoading

(***************************************************************************)
(* C18: the chat page is rendered only when a health check has succeeded   *)
(* and isConnected is true, and once isConnected is true no step makes it  *)
(* false or null.                                                          *)
(***************************************************************************)
C18_ConnectedStays ==
    /\ [](View = "chat" => (isConnected = "true" /\ healthSucceeded))
    /\ [][isConnected = "true" => isConnected' = "true"]_vars

=============================================================================
